---- MODULE Spec2Model ----
(***************************************************************************)
(* A model of wspy: the websocket handshake (websocket.py) and the        *)
(* thread-per-connection Server with its client registry (server.py).     *)
(*                                                                         *)
(* Bytes on the wire are modelled line by line: a line is a record        *)
(* [t, n, v, eol] holding its kind t (the request line "GET", another     *)
(* request line "BAD", a header "HDR", the empty line "EMPTY"), a         *)
(* header's name n and comma-separated value items v, and its line ending *)
(* eol ("CRLF" or "LF").                                                   *)
(***************************************************************************)
EXTENDS Integers, Sequences, FiniteSets, TLC

\* ------------------------------------------------------------------ bounds
NPeers == 2
MaxFrames == 2
FirstChunk == 2
MaxCalls == 2

Peers == 1..NPeers

\* --------------------------------------------------------------- constants
WS_VERSION == "13"
CLOSE_NORMAL == 1000
CLOSE_PROTOCOL_ERROR == 1002

RequiredHeaders ==
    <<"Host", "Upgrade", "Connection", "Sec-WebSocket-Key", "Origin",
      "Sec-WebSocket-Version">>

Range(s) == {s[i] : i \in 1..Len(s)}

\* ----------------------------------------------------------- wire format
Line(t, n, v, eol) == [t |-> t, n |-> n, v |-> v, eol |-> eol]
GetLine == Line("GET", "", <<>>, "CRLF")
BadLine == Line("BAD", "", <<>>, "CRLF")
EmptyLine == Line("EMPTY", "", <<>>, "CRLF")
Hdr(n, v) == Line("HDR", n, v, "CRLF")

\* The value every required header but the version carries in a request.
DefaultValue(n) ==
    CASE n = "Host" -> <<"localhost:8000">>
      [] n = "Upgrade" -> <<"websocket">>
      [] n = "Connection" -> <<"Upgrade">>
      [] n = "Sec-WebSocket-Key" -> <<"dGhlIHNhbXBsZSBub25jZQ==">>
      [] n = "Origin" -> <<"http://localhost">>
      [] OTHER -> <<WS_VERSION>>

\* The header lines of the names in `present`, in the order of RequiredHeaders,
\* with one Sec-WebSocket-Version line per element of `versions`.
RECURSIVE HeaderLines(_, _, _)
HeaderLines(names, present, versions) ==
    IF names = <<>> THEN <<>>
    ELSE LET n == Head(names)
             rest == HeaderLines(Tail(names), present, versions)
         IN  IF n \notin present THEN rest
             ELSE IF n = "Sec-WebSocket-Version"
                  THEN [i \in 1..Len(versions) |-> Hdr(n, <<versions[i]>>)] \o rest
                  ELSE <<Hdr(n, DefaultValue(n))>> \o rest

Request(first, present, versions) ==
    <<first>> \o HeaderLines(RequiredHeaders, present, versions) \o <<EmptyLine>>

VersionChoices == {<<"13">>, <<"8">>, <<"13", "13">>, <<"13 ">>}

AllRequests ==
    {Request(first, present, versions) :
        first \in {GetLine, BadLine},
        present \in SUBSET Range(RequiredHeaders),
        versions \in VersionChoices}

ValidRequest == Request(GetLine, Range(RequiredHeaders), <<"13">>)

\* The requests the peers of the concurrent specification choose from.
Requests ==
    {ValidRequest,
     Request(GetLine, Range(RequiredHeaders) \ {"Sec-WebSocket-Key"}, <<"13">>),
     Request(GetLine, Range(RequiredHeaders), <<"8">>),
     Request(BadLine, Range(RequiredHeaders), <<"13">>)}

\* A valid request that offers protocols and extensions: one
\* Sec-WebSocket-Protocol line per element of `protos` and one
\* Sec-WebSocket-Extensions line per element of `exts`, each the items of a line.
OfferRequest(protos, exts) ==
    <<GetLine>> \o HeaderLines(RequiredHeaders, Range(RequiredHeaders), <<"13">>)
    \o [i \in 1..Len(protos) |-> Hdr("Sec-WebSocket-Protocol", protos[i])]
    \o [i \in 1..Len(exts) |-> Hdr("Sec-WebSocket-Extensions", exts[i])]
    \o <<EmptyLine>>

ProtocolOffers ==
    {<<>>, <<<<"chat">>>>, <<<<"superchat", " chat">>>>, <<<<"chat">>, <<"superchat">>>>}
ExtensionOffers == {<<>>, <<<<"deflate">>>>, <<<<"x-custom", "deflate ">>>>}

OfferRequests ==
    {OfferRequest(protos, exts) : protos \in ProtocolOffers, exts \in ExtensionOffers}

\* The supported protocols and extensions a websocket is configured with.
Supports ==
    {<<<<>>, <<>>>>, <<<<"chat">>, <<"deflate">>>>,
     <<<<"superchat", "chat">>, <<"deflate", "x-custom">>>>}

\* Bytes that follow the header block: the peer's first frame.
DataLine == Line("DATA", "", <<>>, "")

\* The same line, ended by a bare line feed.
WithLF(l) == [l EXCEPT !.eol = "LF"]

\* The requests that exercise the header read: a block followed by more bytes,
\* a block ended by a bare line feed, line feeds only, and a block that never
\* ends.
ReadRequests ==
    Requests \cup
    {ValidRequest \o <<DataLine>>,
     SubSeq(ValidRequest, 1, Len(ValidRequest) - 1) \o <<WithLF(EmptyLine)>>,
     [i \in 1..Len(ValidRequest) |-> WithLF(ValidRequest[i])],
     <<WithLF(EmptyLine), WithLF(EmptyLine)>>,
     SubSeq(ValidRequest, 1, Len(ValidRequest) - 1)}

\* ------------------------------------------------- websocket.server_handshake
\* raw_headers[-4:] in ('\r\n\r\n', '\n\n'): the last four characters are
\* CR LF CR LF (an empty CRLF line after a line ended by CRLF), or the whole
\* buffer is the two characters LF LF.
Terminated(raw) ==
    \/ /\ Len(raw) >= 2
       /\ raw[Len(raw)].t = "EMPTY" /\ raw[Len(raw)].eol = "CRLF"
       /\ raw[Len(raw) - 1].eol = "CRLF"
    \/ /\ Len(raw) = 2
       /\ \A i \in 1..2 : raw[i].t = "EMPTY" /\ raw[i].eol = "LF"

\* re.search(r'^GET (.*) HTTP/1.1\r\n', raw_headers) finds a match.
LocationMatches(raw) ==
    Len(raw) >= 1 /\ raw[1].t = "GET" /\ raw[1].eol = "CRLF"

\* re.findall(r'(.*?): ?(.*?)\r\n', raw_headers): the (name, value) pairs.
FindHeaders(raw) ==
    SelectSeq(raw, LAMBDA l : l.t = "HDR" /\ l.eol = "CRLF")

RECURSIVE JoinWith(_, _)
JoinWith(strs, sep) ==
    IF strs = <<>> THEN ""
    ELSE IF Len(strs) = 1 THEN strs[1]
    ELSE strs[1] \o sep \o JoinWith(Tail(strs), sep)

\* The text of one header value: its items separated by commas.
RawValue(v) == JoinWith(v, ",")

\* header(name): ', '.join([v for n, v in headers if n == name])
header(headers, name) ==
    LET mine == SelectSeq(headers, LAMBDA l : l.n = name)
    IN  JoinWith([i \in 1..Len(mine) |-> RawValue(mine[i].v)], ", ")

header_names(headers) == {headers[i].n : i \in 1..Len(headers)}

\* The first required header, in the order of the check, that is absent.
RECURSIVE FirstMissing(_, _)
FirstMissing(names, present) ==
    IF names = <<>> THEN ""
    ELSE IF Head(names) \notin present THEN Head(names)
    ELSE FirstMissing(Tail(names), present)

NoResponse == <<>>
NoException == [kind |-> "", msg |-> "", arg |-> ""]

\* websocket.__init__, lines 57-61, around the socket `sock`.
websocket_init(sock, protocols, extensions) ==
    [sock |-> sock, protocols |-> protocols, extensions |-> extensions,
     secure |-> FALSE, handshake_started |-> FALSE]

\* No websocket object has been made yet.
NoWebsocket == websocket_init("none", <<>>, <<>>)

Raise_mut_started(kind, msg, arg) ==
    [kind |-> kind, msg |-> msg, arg |-> arg, shake |-> NoResponse,
     handshake_started |-> TRUE]

\* An exception leaves server_handshake before lines 190-191 are reached.
Raise(kind, msg, arg) ==
    [kind |-> kind, msg |-> msg, arg |-> arg, shake |-> NoResponse,
     handshake_started |-> FALSE]

\* str.strip on a value item: the items written with surrounding blanks.
strip(item) ==
    CASE item = " chat" -> "chat"
      [] item = "deflate " -> "deflate"
      [] item = "13 " -> "13"
      [] OTHER -> item

\* The comma-separated items of header(name): the items of its lines, in order.
RECURSIVE HeaderItems(_, _)
HeaderItems(headers, name) ==
    IF headers = <<>> THEN <<>>
    ELSE (IF Head(headers).n = name THEN Head(headers).v ELSE <<>>)
             \o HeaderItems(Tail(headers), name)

\* split_stripped(value), lines 15-16, on the items of the value.
split_stripped(items) == [i \in 1..Len(items) |-> strip(items[i])]

\* [x for x in items if x in supported], lines 164 and 169.
Supported(items, supported) ==
    SelectSeq(items, LAMBDA x : x \in Range(supported))

\* Lines 161-169: the negotiated protocols and extensions. Both are read from
\* header('Sec-WebSocket-Extensions').
NegotiatedProtocols(self, headers) ==
    LET proto == header(headers, "Sec-WebSocket-Extensions")
        protocols == IF proto # ""
                     THEN split_stripped(HeaderItems(headers, "Sec-WebSocket-Extensions"))
                     ELSE <<>>
    IN  Supported(protocols, self.protocols)

NegotiatedExtensions(self, headers) ==
    LET ext == header(headers, "Sec-WebSocket-Extensions")
        extensions == IF ext # ""
                      THEN split_stripped(HeaderItems(headers, "Sec-WebSocket-Extensions"))
                      ELSE <<>>
    IN  Supported(extensions, self.extensions)

\* Lines 176-190: the response, with its optional headers.
Shake(self, headers) ==
    <<"101", header(headers, "Origin"), header(headers, "Host"),
      header(headers, "Sec-WebSocket-Key")>>
    \o (IF NegotiatedProtocols(self, headers) # <<>>
        THEN <<Hdr("Sec-WebSocket-Protocol", NegotiatedProtocols(self, headers))>>
        ELSE <<>>)
    \o (IF NegotiatedExtensions(self, headers) # <<>>
        THEN <<Hdr("Sec-WebSocket-Extensions", NegotiatedExtensions(self, headers))>>
        ELSE <<>>)

\* The checks lines 141-191 make on a complete header block and their outcome:
\* the exception raised, or the 101 response written with sendall.
server_handshake_mut_nokey(self, raw) ==
    IF ~LocationMatches(raw)
    THEN Raise("AttributeError", "NoneType has no attribute group", "")
    ELSE LET headers == FindHeaders(raw)
             missing == FirstMissing(
                 SelectSeq(RequiredHeaders, LAMBDA n : n # "Sec-WebSocket-Key"),
                 header_names(headers))
             version == header(headers, "Sec-WebSocket-Version")
         IN  IF missing # ""
             THEN Raise("HandshakeError", "missing header", missing)
             ELSE IF version # WS_VERSION
             THEN Raise("HandshakeError", "version mismatch", version)
             ELSE [kind |-> "ok", msg |-> "", arg |-> "",
                   shake |-> Shake(self, headers),
                   handshake_started |-> TRUE]

server_handshake_mut_version(self, raw) ==
    IF ~LocationMatches(raw)
    THEN Raise("AttributeError", "NoneType has no attribute group", "")
    ELSE LET headers == FindHeaders(raw)
             missing == FirstMissing(RequiredHeaders, header_names(headers))
             mine == SelectSeq(headers, LAMBDA l : l.n = "Sec-WebSocket-Version")
             version == RawValue(mine[1].v)
         IN  IF missing # ""
             THEN Raise("HandshakeError", "missing header", missing)
             ELSE IF version # WS_VERSION
             THEN Raise("HandshakeError", "version mismatch", version)
             ELSE [kind |-> "ok", msg |-> "", arg |-> "",
                   shake |-> Shake(self, headers),
                   handshake_started |-> TRUE]

server_handshake(self, raw) ==
    IF ~LocationMatches(raw)
    THEN Raise("AttributeError", "NoneType has no attribute group", "")
    ELSE LET headers == FindHeaders(raw)
             missing == FirstMissing(RequiredHeaders, header_names(headers))
             version == header(headers, "Sec-WebSocket-Version")
         IN  IF missing # ""
             THEN Raise("HandshakeError", "missing header", missing)
             ELSE IF version # WS_VERSION
             THEN Raise("HandshakeError", "version mismatch", version)
             ELSE [kind |-> "ok", msg |-> "", arg |-> "",
                   shake |-> Shake(self, headers),
                   handshake_started |-> TRUE]

\* websocket.enable_ssl, lines 208-212: the websocket afterwards and the
\* exception raised, if any.
enable_ssl(self) ==
    IF self.handshake_started
    THEN [self |-> self, raised |-> "SSLError"]
    ELSE [self |-> [self EXCEPT !.secure = TRUE, !.sock = "ssl"], raised |-> ""]

\* websocket.client_handshake, lines 199-200.
client_handshake(self) ==
    [self |-> [self EXCEPT !.handshake_started = TRUE],
     raised |-> "NotImplementedError"]

\* websocket.connect, lines 86-87: self.sock has no attribute `sonnect`, and
\* line 86 raises AttributeError whatever the server at `address` would answer.
connect(self, answer) == [self |-> self, raised |-> "AttributeError"]

\* ------------------------------------------------------------------- state
VARIABLES
    backlog,        \* peers connected to the listening socket, not yet accepted
    unsent,         \* per peer: the request lines it has not sent yet
    wire,           \* per peer: lines received by its socket, not yet read
    mainPc,         \* where Server.run is, on the main thread
    cur,            \* the peer whose socket websocket.accept holds (0: none)
    raw_headers,    \* server_handshake's raw_headers
    response,       \* per peer: the handshake response written to it
    outcome,        \* per peer: how its connection attempt ended in Server.run
    logged,         \* the exception Server.run logged last
    clients,        \* Server.clients, the registry
    everReg,        \* the clients ever appended to the registry
    thr,            \* per client: where its receive_forever thread is
    cstate,         \* per client: the Connection's state
    inbound,        \* per client: frames sent by the peer, not yet received
    nframes,        \* the frames the peers have sent, in total
    out,            \* per client: the partial writes made on its stream
    closeArgs,      \* per client: the (code, reason) of the close being handled
    reported,       \* per client: the events the Connection reported
    applog,         \* per client: the calls of the Server's handlers
    qi,             \* quit_gracefully: the list iterator's index
    quitCalls,      \* the calls of quit_gracefully
    quitSnapshot,   \* the registry when quit_gracefully started iterating
    closeCalls,     \* per client: the close(CLOSE_NORMAL) calls of quit_gracefully
    interrupted,    \* KeyboardInterrupt has been raised in the main thread
    listener,       \* the listening websocket (Server.sock)
    wsock,          \* per peer: the websocket object around its socket
    entered,        \* per peer: server_handshake was entered on its websocket
    cws,            \* a client websocket of the application
    calls,          \* the calls of connect, client_handshake and enable_ssl
    closed,         \* the peers that have shut down their end of the stream
    eofRead         \* server_handshake's recv has returned '' (end of stream)

vars ==
    <<backlog, unsent, wire, mainPc, cur, raw_headers, response, outcome,
      logged, clients, everReg, thr, cstate, inbound, nframes, out, closeArgs,
      reported, applog, qi, quitCalls, quitSnapshot, closeCalls, interrupted,
      listener, wsock, entered, cws, calls, closed, eofRead>>

peerVars == <<backlog, unsent, wire>>
connVars == <<thr, cstate, out, closeArgs, reported, applog>>
quitVars == <<qi, quitCalls, quitSnapshot, closeCalls, interrupted>>
wsVars == <<wsock, entered>>
apiVars == <<listener, cws, calls, closed, eofRead>>

MainThread == 0

Frame(op, code, payload) == [op |-> op, code |-> code, payload |-> payload]

\* The frames a peer may send once the connection is upgraded. Code 0 stands
\* for a CLOSE frame without payload (code None, reason ''); "BAD" is a frame
\* the decoder rejects.
PeerFrames ==
    {Frame("TEXT", 0, "hi"), Frame("PING", 0, "p"), Frame("PONG", 0, "q"),
     Frame("CLOSE", CLOSE_NORMAL, "bye"), Frame("CLOSE", 0, ""),
     Frame("BAD", 0, "")}

Event(h, c, code, data, t) ==
    [h |-> h, client |-> c, code |-> code, data |-> data, thread |-> t]

Part(frame, by, part) == [frame |-> frame, by |-> by, part |-> part]

InitCommon ==
    /\ wire = [p \in Peers |-> <<>>]
    /\ mainPc = "accept"
    /\ cur = 0
    /\ raw_headers = <<>>
    /\ response = [p \in Peers |-> NoResponse]
    /\ outcome = [p \in Peers |-> "none"]
    /\ logged = NoException
    /\ clients = <<>>
    /\ everReg = {}
    /\ thr = [p \in Peers |-> "none"]
    /\ cstate = [p \in Peers |-> "NONE"]
    /\ inbound = [p \in Peers |-> <<>>]
    /\ nframes = 0
    /\ out = [p \in Peers |-> <<>>]
    /\ closeArgs = [p \in Peers |-> <<0, "">>]
    /\ reported = [p \in Peers |-> <<>>]
    /\ applog = [p \in Peers |-> <<>>]
    /\ qi = 0
    /\ quitCalls = 0
    /\ quitSnapshot = <<>>
    /\ closeCalls = [p \in Peers |-> 0]
    /\ interrupted = FALSE
    /\ wsock = [p \in Peers |-> NoWebsocket]
    /\ entered = [p \in Peers |-> FALSE]
    /\ calls = <<>>
    /\ closed = {}
    /\ eofRead = FALSE

\* Server.__init__: a listening websocket made by websocket() (line 37) and an
\* empty registry.
Init ==
    /\ InitCommon
    /\ listener = websocket_init("tcp", <<>>, <<>>)
    /\ cws = NoWebsocket
    /\ backlog = <<>>
    /\ unsent = [p \in Peers |-> <<>>]

\* ------------------------------------------------------------------- peers
Connected(p) == p = cur \/ p \in Range(backlog) \/ outcome[p] # "none"

\* A peer connects to the listening socket, with the request it is to send.
PeerConnect(p, r) ==
    /\ ~Connected(p)
    /\ \A q \in Peers : q < p => Connected(q)
    /\ mainPc \notin {"quit", "quit_write", "done"}
    /\ backlog' = Append(backlog, p)
    /\ unsent' = [unsent EXCEPT ![p] = r]
    /\ UNCHANGED <<wire, mainPc, cur, raw_headers, response, outcome, logged, clients,
                   everReg, inbound, nframes>>
    /\ UNCHANGED connVars /\ UNCHANGED quitVars
    /\ UNCHANGED wsVars /\ UNCHANGED apiVars

\* A peer connects and its whole request r arrives before the server accepts it.
PeerConnectSend(p, r) ==
    /\ ~Connected(p)
    /\ \A q \in Peers : q < p => Connected(q)
    /\ mainPc \notin {"quit", "quit_write", "done"}
    /\ backlog' = Append(backlog, p)
    /\ wire' = [wire EXCEPT ![p] = r]
    /\ UNCHANGED <<unsent, mainPc, cur, raw_headers, response, outcome, logged, clients,
                   everReg, inbound, nframes>>
    /\ UNCHANGED connVars /\ UNCHANGED quitVars
    /\ UNCHANGED wsVars /\ UNCHANGED apiVars

\* The sizes of the next delivery: the first lines alone, or all that is left.
SendSizes(u) == {Len(u)} \cup (IF Len(u) > FirstChunk THEN {FirstChunk} ELSE {})

\* The next n lines of the peer's request arrive at the server's socket.
PeerSend(p, n) ==
    /\ Connected(p)
    /\ unsent[p] # <<>>
    /\ n \in SendSizes(unsent[p])
    /\ wire' = [wire EXCEPT ![p] = @ \o SubSeq(unsent[p], 1, n)]
    /\ unsent' = [unsent EXCEPT ![p] = SubSeq(@, n + 1, Len(@))]
    /\ UNCHANGED <<backlog, mainPc, cur, raw_headers, response, outcome, logged,
                   clients, everReg, inbound, nframes>>
    /\ UNCHANGED connVars /\ UNCHANGED quitVars
    /\ UNCHANGED wsVars /\ UNCHANGED apiVars

\* The peer of an upgraded connection sends a frame, once the server has read
\* the one before and while the stream is not shut down.
PeerFrame(p, f) ==
    /\ response[p] # NoResponse
    /\ inbound[p] = <<>>
    /\ cstate[p] # "CLOSED"
    /\ nframes < MaxFrames
    /\ nframes' = nframes + 1
    /\ inbound' = [inbound EXCEPT ![p] = Append(@, f)]
    /\ UNCHANGED <<mainPc, cur, raw_headers, response, outcome, logged, clients, everReg>>
    /\ UNCHANGED peerVars /\ UNCHANGED connVars /\ UNCHANGED quitVars
    /\ UNCHANGED wsVars /\ UNCHANGED apiVars

\* ------------------------------------------------- Client: the event relays
\* Client.onopen .. Client.onerror: the call of the Server's handler that a
\* Connection's event `ev` is relayed to. Client.onclose goes through
\* Server.remove_client, which calls Server.onclose last.
Relay_mut_pong(ev) ==
    IF ev.h = "onpong"
    THEN Event("onping", ev.client, ev.code, ev.data, ev.thread)
    ELSE Event(ev.h, ev.client, ev.code, ev.data, ev.thread)

Relay(ev) == Event(ev.h, ev.client, ev.code, ev.data, ev.thread)

\* The Connection of client c reports event ev on thread t, and Client relays it.
Report(c, h, code, data, t) ==
    /\ reported' = [reported EXCEPT ![c] = Append(@, Event(h, c, code, data, t))]
    /\ applog' = [applog EXCEPT ![c] = Append(@, Relay(Event(h, c, code, data, t)))]

\* ---------------------------------------------------------------- Server.run
\* websocket.accept, lines 76-78: take a connection from the listen queue,
\* wrap it in websocket(sock), and enter its handshake on this same thread.
RunAccept ==
    /\ mainPc = "accept"
    /\ backlog # <<>>
    /\ cur' = Head(backlog)
    /\ backlog' = Tail(backlog)
    /\ raw_headers' = <<>>
    /\ mainPc' = "handshake"
    /\ UNCHANGED <<unsent, wire, response, outcome, logged, clients, everReg, inbound,
                   nframes>>
    /\ UNCHANGED connVars /\ UNCHANGED quitVars
    /\ wsock' = [wsock EXCEPT ![Head(backlog)] = websocket_init("tcp", <<>>, <<>>)]
    /\ entered' = [entered EXCEPT ![Head(backlog)] = TRUE]
    /\ UNCHANGED apiVars

\* server_handshake, lines 137-138: one turn of the read loop. recv blocks
\* while the socket holds nothing, and returns what it holds otherwise.
HandshakeRecv ==
    /\ mainPc = "handshake"
    /\ ~Terminated(raw_headers)
    /\ wire[cur] # <<>>
    /\ raw_headers' = raw_headers \o wire[cur]
    /\ wire' = [wire EXCEPT ![cur] = <<>>]
    /\ UNCHANGED <<backlog, unsent, mainPc, cur, response, outcome, logged, clients,
                   everReg, inbound, nframes>>
    /\ UNCHANGED connVars /\ UNCHANGED quitVars
    /\ UNCHANGED wsVars /\ UNCHANGED apiVars

HandshakeDone == mainPc = "handshake" /\ Terminated(raw_headers)

\* server_handshake returns: the response is written, accept returns the
\* websocket to Server.run (line 49).
AcceptReturns ==
    /\ HandshakeDone
    /\ server_handshake(wsock[cur], raw_headers).kind = "ok"
    /\ response' = [response EXCEPT ![cur] = server_handshake(wsock[cur], raw_headers).shake]
    /\ mainPc' = "client"
    /\ UNCHANGED <<cur, raw_headers, outcome, logged, clients, everReg, inbound, nframes>>
    /\ UNCHANGED peerVars /\ UNCHANGED connVars /\ UNCHANGED quitVars
    /\ wsock' = [wsock EXCEPT ![cur].handshake_started =
                      server_handshake(wsock[cur], raw_headers).handshake_started]
    /\ UNCHANGED entered /\ UNCHANGED apiVars

\* What an exception raised inside the try block leads to: the handler logs,
\* and the loop goes on with the next accept (lines 58-59, 63-64).
LogAndContinue(how, exc) ==
    /\ outcome' = [outcome EXCEPT ![cur] = how]
    /\ logged' = [kind |-> exc.kind, msg |-> exc.msg, arg |-> exc.arg]
    /\ mainPc' = "accept"
    /\ cur' = 0
    /\ raw_headers' = <<>>

ExceptHandshakeError_mut_register ==
    /\ HandshakeDone
    /\ server_handshake(wsock[cur], raw_headers).kind = "HandshakeError"
    /\ LogAndContinue("HandshakeError", server_handshake(wsock[cur], raw_headers))
    /\ clients' = Append(clients, cur)
    /\ UNCHANGED <<response, everReg, inbound, nframes>>
    /\ UNCHANGED peerVars /\ UNCHANGED connVars /\ UNCHANGED quitVars
    /\ wsock' = [wsock EXCEPT ![cur].handshake_started =
                      server_handshake(wsock[cur], raw_headers).handshake_started]
    /\ UNCHANGED entered /\ UNCHANGED apiVars

\* server_handshake raises HandshakeError: lines 58-59.
ExceptHandshakeError ==
    /\ HandshakeDone
    /\ server_handshake(wsock[cur], raw_headers).kind = "HandshakeError"
    /\ LogAndContinue("HandshakeError", server_handshake(wsock[cur], raw_headers))
    /\ UNCHANGED <<response, clients, everReg, inbound, nframes>>
    /\ UNCHANGED peerVars /\ UNCHANGED connVars /\ UNCHANGED quitVars
    /\ wsock' = [wsock EXCEPT ![cur].handshake_started =
                      server_handshake(wsock[cur], raw_headers).handshake_started]
    /\ UNCHANGED entered /\ UNCHANGED apiVars

ExceptException_mut_break ==
    /\ HandshakeDone
    /\ server_handshake(wsock[cur], raw_headers).kind = "AttributeError"
    /\ outcome' = [outcome EXCEPT ![cur] = "Exception"]
    /\ logged' = [kind |-> "AttributeError", msg |-> "", arg |-> ""]
    /\ mainPc' = "quit"
    /\ cur' = 0
    /\ raw_headers' = <<>>
    /\ qi' = 0
    /\ quitCalls' = quitCalls + 1
    /\ quitSnapshot' = clients
    /\ UNCHANGED <<response, clients, everReg, inbound, nframes, closeCalls,
                   interrupted>>
    /\ UNCHANGED peerVars /\ UNCHANGED connVars
    /\ wsock' = [wsock EXCEPT ![cur].handshake_started =
                      server_handshake(wsock[cur], raw_headers).handshake_started]
    /\ UNCHANGED entered /\ UNCHANGED apiVars

\* server_handshake raises another exception (line 141: no request line
\* matched, AttributeError): lines 63-64.
ExceptException ==
    /\ HandshakeDone
    /\ server_handshake(wsock[cur], raw_headers).kind = "AttributeError"
    /\ LogAndContinue("Exception", server_handshake(wsock[cur], raw_headers))
    /\ UNCHANGED <<response, clients, everReg, inbound, nframes>>
    /\ UNCHANGED peerVars /\ UNCHANGED connVars /\ UNCHANGED quitVars
    /\ wsock' = [wsock EXCEPT ![cur].handshake_started =
                      server_handshake(wsock[cur], raw_headers).handshake_started]
    /\ UNCHANGED entered /\ UNCHANGED apiVars

\* Connection.__init__, which Client.__init__ calls (line 106): the Connection
\* is OPEN and reports onopen, on thread t, which constructs it.
Connection_init(c, t) ==
    /\ cstate' = [cstate EXCEPT ![c] = "OPEN"]
    /\ Report(c, "onopen", 0, "", t)

\* Line 51: client = Client(self, sock), on the main thread.
NewClient ==
    /\ mainPc = "client"
    /\ Connection_init(cur, MainThread)
    /\ mainPc' = "append"
    /\ UNCHANGED <<cur, raw_headers, response, outcome, logged, clients, everReg,
                   inbound, nframes, thr, out, closeArgs>>
    /\ UNCHANGED peerVars /\ UNCHANGED quitVars
    /\ UNCHANGED wsVars /\ UNCHANGED apiVars

\* Line 52: self.clients.append(client).
RegisterClient ==
    /\ mainPc = "append"
    /\ clients' = Append(clients, cur)
    /\ everReg' = everReg \cup {cur}
    /\ mainPc' = "start"
    /\ UNCHANGED <<cur, raw_headers, response, outcome, logged, inbound, nframes>>
    /\ UNCHANGED peerVars /\ UNCHANGED connVars /\ UNCHANGED quitVars
    /\ UNCHANGED wsVars /\ UNCHANGED apiVars

\* Lines 55-57: the thread running client.receive_forever starts.
StartThread ==
    /\ mainPc = "start"
    /\ thr' = [thr EXCEPT ![cur] = "recv"]
    /\ outcome' = [outcome EXCEPT ![cur] = "started"]
    /\ mainPc' = "accept"
    /\ cur' = 0
    /\ raw_headers' = <<>>
    /\ UNCHANGED <<logged, response, clients, everReg, inbound, nframes, cstate, out,
                   closeArgs, reported, applog>>
    /\ UNCHANGED peerVars /\ UNCHANGED quitVars
    /\ UNCHANGED wsVars /\ UNCHANGED apiVars

\* Line 57: thread.start() raises (no thread can be started): lines 63-64.
StartThreadFails ==
    /\ mainPc = "start"
    /\ LogAndContinue("startfailed", Raise("ThreadError", "can't start new thread", ""))
    /\ UNCHANGED <<response, clients, everReg, inbound, nframes>>
    /\ UNCHANGED peerVars /\ UNCHANGED connVars /\ UNCHANGED quitVars
    /\ UNCHANGED wsVars /\ UNCHANGED apiVars

\* KeyboardInterrupt reaches the main thread inside the try block: lines
\* 60-62 leave the loop, and line 66 calls quit_gracefully, whose for loop
\* starts an iterator over self.clients.
Interrupt ==
    /\ mainPc \in {"accept", "handshake", "client", "append", "start"}
    /\ mainPc' = "quit"
    /\ outcome' = [p \in Peers |-> IF p = cur THEN "interrupted" ELSE outcome[p]]
    /\ cur' = 0
    /\ raw_headers' = <<>>
    /\ qi' = 0
    /\ quitCalls' = quitCalls + 1
    /\ quitSnapshot' = clients
    /\ interrupted' = TRUE
    /\ UNCHANGED <<logged, response, clients, everReg, inbound, nframes, closeCalls>>
    /\ UNCHANGED peerVars /\ UNCHANGED connVars
    /\ UNCHANGED wsVars /\ UNCHANGED apiVars

\* -------------------------------------------------------------- websocket.send
\* self.sock.sendall(frame.pack()), lines 93-95, takes no lock: the socket may
\* take the frame's bytes in two writes, and other threads run in between.
SendFirst(c, frame, by) == out' = [out EXCEPT ![c] = Append(@, Part(frame, by, 1))]
SendRest(c, frame, by) == out' = [out EXCEPT ![c] = Append(@, Part(frame, by, 2))]

\* ------------------------------------------------------ Server.quit_gracefully
\* list.remove(x): the list without its first occurrence of x.
RECURSIVE RemoveFirst(_, _)
RemoveFirst(list, x) ==
    IF list = <<>> THEN <<>>
    ELSE IF Head(list) = x THEN Tail(list)
    ELSE <<Head(list)>> \o RemoveFirst(Tail(list), x)

\* Connection.close(code), called on thread t: an OPEN Connection starts
\* sending a CLOSE frame and is CLOSING; the peer's CLOSE is left to the
\* receive loop. Another Connection has sent or received CLOSE already.
Connection_close(c, t) ==
    IF cstate[c] = "OPEN"
    THEN /\ SendFirst(c, "CLOSE", t)
         /\ cstate' = [cstate EXCEPT ![c] = "CLOSING"]
    ELSE UNCHANGED <<out, cstate>>

\* Lines 69-70: the list iterator yields self.clients[qi] of the list as it is
\* now, and client.close(CLOSE_NORMAL) is called.
QuitNext ==
    /\ mainPc = "quit"
    /\ qi < Len(clients)
    /\ LET c == clients[qi + 1]
       IN  /\ qi' = qi + 1
           /\ cur' = c
           /\ closeCalls' = [closeCalls EXCEPT ![c] = @ + 1]
           /\ Connection_close(c, MainThread)
           /\ mainPc' = IF cstate[c] = "OPEN" THEN "quit_write" ELSE "quit"
    /\ UNCHANGED <<raw_headers, response, outcome, logged, clients, everReg, inbound,
                   nframes, thr, closeArgs, reported, applog, quitCalls,
                   quitSnapshot, interrupted>>
    /\ UNCHANGED peerVars
    /\ UNCHANGED wsVars /\ UNCHANGED apiVars

\* The rest of the CLOSE frame is written, and close returns.
QuitWriteRest ==
    /\ mainPc = "quit_write"
    /\ SendRest(cur, "CLOSE", MainThread)
    /\ mainPc' = "quit"
    /\ UNCHANGED <<cur, raw_headers, response, outcome, logged, clients, everReg,
                   inbound, nframes, thr, cstate, closeArgs, reported, applog>>
    /\ UNCHANGED peerVars /\ UNCHANGED quitVars
    /\ UNCHANGED wsVars /\ UNCHANGED apiVars

\* The iterator's index is past the end of the list: the for loop ends.
QuitEnd ==
    /\ mainPc = "quit"
    /\ qi >= Len(clients)
    /\ mainPc' = "done"
    /\ cur' = 0
    /\ UNCHANGED <<raw_headers, response, outcome, logged, clients, everReg, inbound,
                   nframes>>
    /\ UNCHANGED peerVars /\ UNCHANGED connVars /\ UNCHANGED quitVars
    /\ UNCHANGED wsVars /\ UNCHANGED apiVars

\* ------------------------------------------- Connection.receive_forever
\* A data frame or a PONG is received: its event is delivered.
RecvData(c) ==
    /\ thr[c] = "recv"
    /\ inbound[c] # <<>>
    /\ Head(inbound[c]).op \in {"TEXT", "PONG"}
    /\ inbound' = [inbound EXCEPT ![c] = Tail(@)]
    /\ Report(c, IF Head(inbound[c]).op = "TEXT" THEN "onmessage" ELSE "onpong",
              0, Head(inbound[c]).payload, c)
    /\ UNCHANGED <<mainPc, cur, raw_headers, response, outcome, logged, clients,
                   everReg, nframes, thr, cstate, out, closeArgs>>
    /\ UNCHANGED peerVars /\ UNCHANGED quitVars
    /\ UNCHANGED wsVars /\ UNCHANGED apiVars

\* A PING is received: onping is delivered, and a PONG is sent unless the
\* connection is closing.
RecvPing(c) ==
    /\ thr[c] = "recv"
    /\ inbound[c] # <<>>
    /\ Head(inbound[c]).op = "PING"
    /\ inbound' = [inbound EXCEPT ![c] = Tail(@)]
    /\ Report(c, "onping", 0, Head(inbound[c]).payload, c)
    /\ IF cstate[c] = "OPEN"
       THEN /\ SendFirst(c, "PONG", c)
            /\ thr' = [thr EXCEPT ![c] = "pong"]
       ELSE UNCHANGED <<out, thr>>
    /\ UNCHANGED <<mainPc, cur, raw_headers, response, outcome, logged, clients,
                   everReg, nframes, cstate, closeArgs>>
    /\ UNCHANGED peerVars /\ UNCHANGED quitVars
    /\ UNCHANGED wsVars /\ UNCHANGED apiVars

PongRest(c) ==
    /\ thr[c] = "pong"
    /\ SendRest(c, "PONG", c)
    /\ thr' = [thr EXCEPT ![c] = "recv"]
    /\ UNCHANGED <<mainPc, cur, raw_headers, response, outcome, logged, clients,
                   everReg, inbound, nframes, cstate, closeArgs, reported, applog>>
    /\ UNCHANGED peerVars /\ UNCHANGED quitVars
    /\ UNCHANGED wsVars /\ UNCHANGED apiVars

\* The stream is shut down, the connection is CLOSED, and the Connection calls
\* self.onclose(code, reason): Client.onclose, line 128.
CallOnclose(c, code, reason) ==
    /\ cstate' = [cstate EXCEPT ![c] = "CLOSED"]
    /\ closeArgs' = [closeArgs EXCEPT ![c] = <<code, reason>>]
    /\ reported' = [reported EXCEPT ![c] = Append(@, Event("onclose", c, code, reason, c))]
    /\ thr' = [thr EXCEPT ![c] = "remove"]

\* A CLOSE frame is received. An OPEN connection echoes it first; one that is
\* CLOSING (this side sent CLOSE) goes on to the shutdown.
RecvClose(c) ==
    /\ thr[c] = "recv"
    /\ inbound[c] # <<>>
    /\ Head(inbound[c]).op = "CLOSE"
    /\ inbound' = [inbound EXCEPT ![c] = Tail(@)]
    /\ IF cstate[c] = "OPEN"
       THEN /\ SendFirst(c, "CLOSE", c)
            /\ cstate' = [cstate EXCEPT ![c] = "CLOSING"]
            /\ closeArgs' = [closeArgs EXCEPT
                   ![c] = <<Head(inbound[c]).code, Head(inbound[c]).payload>>]
            /\ thr' = [thr EXCEPT ![c] = "echo"]
            /\ UNCHANGED <<reported, applog>>
       ELSE /\ CallOnclose(c, Head(inbound[c]).code, Head(inbound[c]).payload)
            /\ UNCHANGED <<out, applog>>
    /\ UNCHANGED <<mainPc, cur, raw_headers, response, outcome, logged, clients,
                   everReg, nframes>>
    /\ UNCHANGED peerVars /\ UNCHANGED quitVars
    /\ UNCHANGED wsVars /\ UNCHANGED apiVars

\* A frame that cannot be decoded is received: onerror is delivered, and the
\* connection is closed with CLOSE_PROTOCOL_ERROR.
RecvBad(c) ==
    /\ thr[c] = "recv"
    /\ inbound[c] # <<>>
    /\ Head(inbound[c]).op = "BAD"
    /\ inbound' = [inbound EXCEPT ![c] = Tail(@)]
    /\ Report(c, "onerror", 0, "ProtocolError", c)
    /\ closeArgs' = [closeArgs EXCEPT ![c] = <<CLOSE_PROTOCOL_ERROR, "">>]
    /\ thr' = [thr EXCEPT ![c] = "echo"]
    /\ IF cstate[c] = "OPEN"
       THEN /\ SendFirst(c, "CLOSE", c)
            /\ cstate' = [cstate EXCEPT ![c] = "CLOSING"]
       ELSE UNCHANGED <<out, cstate>>
    /\ UNCHANGED <<mainPc, cur, raw_headers, response, outcome, logged, clients,
                   everReg, nframes>>
    /\ UNCHANGED peerVars /\ UNCHANGED quitVars
    /\ UNCHANGED wsVars /\ UNCHANGED apiVars

\* The rest of the CLOSE frame this thread began is written, then the
\* connection shuts down.
EchoRest(c) ==
    /\ thr[c] = "echo"
    /\ IF Len(out[c]) > 0 /\ \E i \in 1..Len(out[c]) :
            /\ out[c][i] = Part("CLOSE", c, 1)
            /\ \A j \in i+1..Len(out[c]) : out[c][j] # Part("CLOSE", c, 2)
       THEN SendRest(c, "CLOSE", c)
       ELSE UNCHANGED out
    /\ CallOnclose(c, closeArgs[c][1], closeArgs[c][2])
    /\ UNCHANGED <<mainPc, cur, raw_headers, response, outcome, logged, clients,
                   everReg, inbound, nframes, applog>>
    /\ UNCHANGED peerVars /\ UNCHANGED quitVars
    /\ UNCHANGED wsVars /\ UNCHANGED apiVars

\* ------------------------------------------------------- Server.remove_client
\* Line 73: self.clients.remove(client), on the thread that closes the
\* connection. A client that is not in the list makes remove raise ValueError,
\* which ends the thread before line 74.
RemoveClient_mut_keep(c) ==
    /\ thr[c] = "remove"
    /\ thr' = [thr EXCEPT ![c] = "onclose"]
    /\ UNCHANGED <<clients, mainPc, cur, raw_headers, response, outcome, logged, everReg,
                   inbound, nframes, cstate, out, closeArgs, reported, applog>>
    /\ UNCHANGED peerVars /\ UNCHANGED quitVars
    /\ UNCHANGED wsVars /\ UNCHANGED apiVars

RemoveClient(c) ==
    /\ thr[c] = "remove"
    /\ clients' = RemoveFirst(clients, c)
    /\ thr' = [thr EXCEPT ![c] = IF c \in Range(clients) THEN "onclose" ELSE "ended"]
    /\ UNCHANGED <<mainPc, cur, raw_headers, response, outcome, logged, everReg,
                   inbound, nframes, cstate, out, closeArgs, reported, applog>>
    /\ UNCHANGED peerVars /\ UNCHANGED quitVars
    /\ UNCHANGED wsVars /\ UNCHANGED apiVars

\* Line 74: self.onclose(client, code, reason).
ServerOnclose(c) ==
    /\ thr[c] = "onclose"
    /\ applog' = [applog EXCEPT
           ![c] = Append(@, Relay(Event("onclose", c, closeArgs[c][1],
                                        closeArgs[c][2], c)))]
    /\ thr' = [thr EXCEPT ![c] = "ended"]
    /\ UNCHANGED <<mainPc, cur, raw_headers, response, outcome, logged, clients,
                   everReg, inbound, nframes, cstate, out, closeArgs, reported>>
    /\ UNCHANGED peerVars /\ UNCHANGED quitVars
    /\ UNCHANGED wsVars /\ UNCHANGED apiVars

\* ------------------------------------------------ the end of the peer's stream
\* A peer that has not been upgraded shuts down its end of the stream: nothing
\* more is delivered after what it has sent.
PeerClose(p) ==
    /\ Connected(p)
    /\ p \notin closed
    /\ response[p] = NoResponse
    /\ closed' = closed \cup {p}
    /\ unsent' = [unsent EXCEPT ![p] = <<>>]
    /\ UNCHANGED <<backlog, wire, mainPc, cur, raw_headers, response, outcome, logged,
                   clients, everReg, inbound, nframes, listener, cws, calls, eofRead>>
    /\ UNCHANGED connVars /\ UNCHANGED quitVars /\ UNCHANGED wsVars

\* server_handshake, lines 137-138, at the end of the stream: recv returns ''
\* at once, raw_headers is left as it is, and the loop takes its next turn.
HandshakeRecvEof ==
    /\ mainPc = "handshake"
    /\ ~Terminated(raw_headers)
    /\ wire[cur] = <<>>
    /\ cur \in closed
    /\ raw_headers' = raw_headers \o <<>>
    /\ eofRead' = TRUE
    /\ UNCHANGED <<mainPc, cur, response, outcome, logged, clients, everReg, inbound,
                   nframes, listener, cws, calls, closed>>
    /\ UNCHANGED peerVars /\ UNCHANGED connVars /\ UNCHANGED quitVars
    /\ UNCHANGED wsVars

\* ------------------------------------------------- the websocket used directly
\* An application takes a connection from a plain listening socket and wraps
\* it: websocket(sock, protocols, extensions), lines 43-61.
NewWebsocket(protocols, extensions) ==
    /\ mainPc = "accept"
    /\ backlog # <<>>
    /\ wsock[Head(backlog)] = NoWebsocket
    /\ cur' = Head(backlog)
    /\ backlog' = Tail(backlog)
    /\ wsock' = [wsock EXCEPT ![Head(backlog)] =
                     websocket_init("tcp", protocols, extensions)]
    /\ raw_headers' = <<>>
    /\ mainPc' = "wrapped"
    /\ UNCHANGED <<unsent, wire, response, outcome, logged, clients, everReg, inbound,
                   nframes, entered>>
    /\ UNCHANGED connVars /\ UNCHANGED quitVars /\ UNCHANGED apiVars

\* The application calls server_handshake on the websocket it made (line 128).
CallServerHandshake ==
    /\ mainPc = "wrapped"
    /\ mainPc' = "handshake"
    /\ entered' = [entered EXCEPT ![cur] = TRUE]
    /\ UNCHANGED <<cur, raw_headers, response, outcome, logged, clients, everReg,
                   inbound, nframes, wsock>>
    /\ UNCHANGED peerVars /\ UNCHANGED connVars /\ UNCHANGED quitVars
    /\ UNCHANGED apiVars

\* A call of `op` on the websocket `before`, on which a handshake was entered
\* or not, and what came of it.
Call(op, side, before, res, wasEntered, answer) ==
    [op |-> op, side |-> side, before |-> before, after |-> res.self,
     raised |-> res.raised, entered |-> wasEntered, answer |-> answer]

\* The application calls enable_ssl on the websocket of peer p, between its
\* other calls on that websocket.
EnableSsl(p) ==
    /\ wsock[p] # NoWebsocket
    /\ ~(cur = p /\ mainPc = "handshake")
    /\ Len(calls) < MaxCalls
    /\ wsock' = [wsock EXCEPT ![p] = enable_ssl(wsock[p]).self]
    /\ calls' = Append(calls, Call("enable_ssl", "server", wsock[p],
                                   enable_ssl(wsock[p]), entered[p], ""))
    /\ UNCHANGED <<mainPc, cur, raw_headers, response, outcome, logged, clients,
                   everReg, inbound, nframes, entered, listener, cws, closed, eofRead>>
    /\ UNCHANGED peerVars /\ UNCHANGED connVars /\ UNCHANGED quitVars

\* client_handshake was entered on the client websocket.
ClientEntered == \E i \in 1..Len(calls) : calls[i].op = "client_handshake"

\* The application calls enable_ssl on its client websocket.
ClientEnableSsl ==
    /\ cws # NoWebsocket
    /\ Len(calls) < MaxCalls
    /\ cws' = enable_ssl(cws).self
    /\ calls' = Append(calls, Call("enable_ssl", "client", cws, enable_ssl(cws),
                                   ClientEntered, ""))
    /\ UNCHANGED <<mainPc, cur, raw_headers, response, outcome, logged, clients,
                   everReg, inbound, nframes, listener, closed, eofRead>>
    /\ UNCHANGED peerVars /\ UNCHANGED connVars /\ UNCHANGED quitVars
    /\ UNCHANGED wsVars

\* What the server at the address of a connect would answer to a handshake.
ServerAnswers == {"101 accept matches", "101 accept differs", "404"}

\* The application calls connect(address) on its client websocket.
Connect(answer) ==
    /\ cws # NoWebsocket
    /\ Len(calls) < MaxCalls
    /\ cws' = connect(cws, answer).self
    /\ calls' = Append(calls, Call("connect", "client", cws, connect(cws, answer),
                                   ClientEntered, answer))
    /\ UNCHANGED <<mainPc, cur, raw_headers, response, outcome, logged, clients,
                   everReg, inbound, nframes, listener, closed, eofRead>>
    /\ UNCHANGED peerVars /\ UNCHANGED connVars /\ UNCHANGED quitVars
    /\ UNCHANGED wsVars

\* The application calls client_handshake on its client websocket.
ClientHandshake ==
    /\ cws # NoWebsocket
    /\ Len(calls) < MaxCalls
    /\ cws' = client_handshake(cws).self
    /\ calls' = Append(calls, Call("client_handshake", "client", cws,
                                   client_handshake(cws), ClientEntered, ""))
    /\ UNCHANGED <<mainPc, cur, raw_headers, response, outcome, logged, clients,
                   everReg, inbound, nframes, listener, closed, eofRead>>
    /\ UNCHANGED peerVars /\ UNCHANGED connVars /\ UNCHANGED quitVars
    /\ UNCHANGED wsVars

\* ------------------------------------------------------------ specification
\* The CLOSE frames among PeerFrames.
CloseFrames == {f \in PeerFrames : f.op = "CLOSE"}

AcceptStep ==
    \/ RunAccept
    \/ HandshakeRecv
    \/ AcceptReturns
    \/ NewClient
    \/ RegisterClient
    \/ StartThread

ExceptStep ==
    \/ ExceptHandshakeError
    \/ ExceptException

MainStep == AcceptStep \/ ExceptStep

QuitStep ==
    \/ QuitNext
    \/ QuitWriteRest
    \/ QuitEnd

CloseStep(c) ==
    \/ RecvClose(c)
    \/ EchoRest(c)
    \/ RemoveClient(c)
    \/ ServerOnclose(c)

\* The Server and its registry: peers send any of Requests, in one piece or
\* two, and upgraded peers close their connections.
Next ==
    \/ \E p \in Peers, r \in Requests : PeerConnect(p, r)
    \/ \E p \in Peers : \E n \in SendSizes(unsent[p]) : PeerSend(p, n)
    \/ \E p \in Peers, f \in CloseFrames : PeerFrame(p, f)
    \/ MainStep
    \/ Interrupt
    \/ QuitStep
    \/ \E c \in Peers : CloseStep(c)

Spec == Init /\ [][Next]_vars

\* The connections' traffic: peers send valid requests at once, and upgraded
\* peers send any of PeerFrames.
NextFrames ==
    \/ \E p \in Peers : PeerConnectSend(p, ValidRequest)
    \/ \E p \in Peers, f \in PeerFrames : PeerFrame(p, f)
    \/ AcceptStep
    \/ Interrupt
    \/ QuitStep
    \/ \E c \in Peers : RecvData(c)
    \/ \E c \in Peers : RecvPing(c)
    \/ \E c \in Peers : PongRest(c)
    \/ \E c \in Peers : RecvBad(c)
    \/ \E c \in Peers : CloseStep(c)

SpecFrames == Init /\ [][NextFrames]_vars

\* The handshake alone: one peer has connected and sends any of AllRequests,
\* in one piece or two.
InitHandshake ==
    /\ InitCommon
    /\ listener = websocket_init("tcp", <<>>, <<>>)
    /\ cws = NoWebsocket
    /\ backlog = <<1>>
    /\ unsent \in {[p \in Peers |-> IF p = 1 THEN r ELSE <<>>] : r \in AllRequests}

NextHandshake ==
    \/ \E n \in SendSizes(unsent[1]) : PeerSend(1, n)
    \/ RunAccept
    \/ HandshakeRecv
    \/ AcceptReturns
    \/ ExceptStep

SpecHandshake == InitHandshake /\ [][NextHandshake]_vars

\* The Server when a thread may fail to start.
NextThreads ==
    \/ Next
    \/ StartThreadFails

SpecThreads == Init /\ [][NextThreads]_vars

\* The header read: one peer sends any of ReadRequests, in one piece or two,
\* and may shut down its end of the stream. Every thread that can run does,
\* and a peer goes on until its request is sent or its stream is shut down.
InitRead ==
    /\ InitCommon
    /\ listener = websocket_init("tcp", <<>>, <<>>)
    /\ cws = NoWebsocket
    /\ backlog = <<1>>
    /\ unsent \in {[p \in Peers |-> IF p = 1 THEN r ELSE <<>>] : r \in ReadRequests}

NextRead ==
    \/ \E n \in SendSizes(unsent[1]) : PeerSend(1, n)
    \/ PeerClose(1)
    \/ RunAccept
    \/ HandshakeRecv
    \/ HandshakeRecvEof
    \/ AcceptReturns
    \/ ExceptStep

SpecRead == InitRead /\ [][NextRead]_vars /\ WF_vars(NextRead)

\* accept() on a listening websocket configured with supported protocols and
\* extensions; the peer's request offers some.
InitAccept ==
    /\ InitCommon
    /\ listener \in {websocket_init("tcp", se[1], se[2]) : se \in Supports}
    /\ cws = NoWebsocket
    /\ backlog = <<1>>
    /\ unsent \in {[p \in Peers |-> IF p = 1 THEN r ELSE <<>>] : r \in OfferRequests}

NextAccept ==
    \/ \E n \in SendSizes(unsent[1]) : PeerSend(1, n)
    \/ RunAccept
    \/ HandshakeRecv
    \/ AcceptReturns

SpecAccept == InitAccept /\ [][NextAccept]_vars

\* The websocket API used directly: a server-side websocket made around a
\* connected socket, and a client websocket made by websocket().
InitWebsocket ==
    /\ InitCommon
    /\ listener = NoWebsocket
    /\ cws = websocket_init("tcp", <<>>, <<>>)
    /\ backlog = <<1>>
    /\ unsent \in {[p \in Peers |-> IF p = 1 THEN r ELSE <<>>] :
                     r \in OfferRequests \cup Requests}

NextWebsocket ==
    \/ \E n \in SendSizes(unsent[1]) : PeerSend(1, n)
    \/ \E se \in Supports : NewWebsocket(se[1], se[2])
    \/ CallServerHandshake
    \/ HandshakeRecv
    \/ AcceptReturns
    \/ ExceptStep
    \/ \E p \in Peers : EnableSsl(p)
    \/ ClientEnableSsl
    \/ \E answer \in ServerAnswers : Connect(answer)
    \/ ClientHandshake

SpecWebsocket == InitWebsocket /\ [][NextWebsocket]_vars

\* ------------------------------------------------------------------ claims
LoopPcs == {"accept", "handshake", "client", "append", "start"}
HasEvent(log, h) == \E i \in 1..Len(log) : log[i].h = h
CountEvents(log, h) == Cardinality({i \in 1..Len(log) : log[i].h = h})

\* C1: a connection attempt whose handshake raises HandshakeError never
\* enters the registry: the step that handles the error leaves the registry
\* unchanged, and for that peer no Client is created (no Connection state, no
\* onopen), nothing is registered and no receive loop is started.
C1_HandshakeErrorNotRegistered ==
    /\ [](\A p \in Peers : outcome[p] = "HandshakeError" =>
            /\ p \notin Range(clients) /\ p \notin everReg
            /\ cstate[p] = "NONE" /\ reported[p] = <<>> /\ applog[p] = <<>>
            /\ thr[p] = "none")
    /\ [][\A p \in Peers :
            (outcome[p] = "none" /\ outcome'[p] = "HandshakeError") =>
                /\ clients' = clients /\ everReg' = everReg
                /\ thr' = thr /\ cstate' = cstate]_vars

C1_Witness ==
    \E p \in Peers :
        /\ outcome[p] = "HandshakeError"
        /\ logged.kind = "HandshakeError"
        /\ logged.msg = "version mismatch"
        /\ clients # <<>>

\* C2: the handshake's header read never blocks the accept loop: while the
\* loop runs and a client whose complete request has arrived waits in the
\* listen queue, the main thread can take a step, whatever the client being
\* upgraded has sent; and a registered connection's thread with a frame to
\* read can take a step too.
C2_AcceptLoopNeverBlocked ==
    /\ (mainPc \in LoopPcs /\ \E q \in Range(backlog) : Terminated(wire[q]))
          => ENABLED MainStep
    /\ \A c \in Peers :
          (thr[c] = "recv" /\ inbound[c] # <<>>) => ENABLED CloseStep(c)

\* C3: quit_gracefully calls close(CLOSE_NORMAL) exactly once on every
\* Connection registered when its iteration starts: never twice, and once the
\* iteration is over none was skipped, whatever connections removed
\* themselves meanwhile. Stated for the connections that matter most: those of
\* the snapshot that are still registered when the iteration is over.
C3_QuitClosesSnapshotOnce ==
    /\ \A c \in Peers : closeCalls[c] <= 1
    /\ mainPc = "done" =>
          \A c \in Range(quitSnapshot) \cap Range(clients) : closeCalls[c] = 1

\* C4: writes to one connection's stream are serialized: the first part of a
\* frame is followed on the stream by the rest of that same frame, whichever
\* threads write.
C4_WritesSerialized ==
    \A c \in Peers : \A i \in 1..Len(out[c]) :
        /\ (out[c][i].part = 1 /\ i < Len(out[c])) =>
              out[c][i + 1] = Part(out[c][i].frame, out[c][i].by, 2)
        /\ out[c][i].part = 2 =>
              (i > 1 /\ out[c][i - 1] = Part(out[c][i].frame, out[c][i].by, 1))

C6_RemovedBeforeOnclose ==
    /\ [](\A c \in Peers : HasEvent(applog[c], "onclose") => c \notin Range(clients))
    /\ [][\A c \in Peers :
            (~HasEvent(applog[c], "onclose") /\ HasEvent(applog'[c], "onclose")) =>
                /\ c \in everReg
                /\ c \notin Range(clients) /\ c \notin Range(clients')
                /\ reported[c] # <<>>
                /\ LET e == applog'[c][Len(applog'[c])]
                       r == reported[c][Len(reported[c])]
                   IN  /\ r.h = "onclose" /\ e.h = "onclose"
                       /\ e.client = c /\ e.code = r.code /\ e.data = r.data]_vars

C6_Witness ==
    \E c \in Peers :
        /\ HasEvent(applog[c], "onclose")
        /\ applog[c][Len(applog[c])].code = CLOSE_NORMAL
        /\ applog[c][Len(applog[c])].data = "bye"
        /\ clients # <<>>

\* The calls of the Server's handlers for client c are, in order, the events
\* the Connection reported, each once; only a reported onclose may still be on
\* its way through remove_client.
RelayedInOrder(c) ==
    /\ Len(applog[c]) <= Len(reported[c])
    /\ \A i \in 1..Len(applog[c]) :
          /\ applog[c][i].h = reported[c][i].h
          /\ applog[c][i].client = c
          /\ applog[c][i].code = reported[c][i].code
          /\ applog[c][i].data = reported[c][i].data
    /\ Len(reported[c]) - Len(applog[c]) <= 1
    /\ thr[c] \notin {"remove", "onclose"} => Len(applog[c]) = Len(reported[c])
    /\ CountEvents(applog[c], "onclose") <= 1
    /\ thr[c] = "ended" => CountEvents(applog[c], "onclose") = 1

C8_OnopenAfterRegistration ==
    \A c \in Peers :
        /\ HasEvent(applog[c], "onopen") => c \in everReg
        /\ thr[c] # "none" => CountEvents(applog[c], "onopen") = 1

\* The required headers no header line of the header block carries.
AbsentHeaders(raw) ==
    {n \in Range(RequiredHeaders) :
        ~\E i \in 1..Len(raw) : raw[i].t = "HDR" /\ raw[i].n = n}

\* C9: with a valid request line, server_handshake raises a missing-header
\* HandshakeError exactly when a required header is absent; the error names
\* an absent header, and no response is written.
C9_MissingHeader ==
    [][(HandshakeDone /\ raw_headers[1] = GetLine /\ mainPc' # "handshake") =>
          /\ (outcome'[cur] = "HandshakeError" /\ logged'.msg = "missing header")
                <=> AbsentHeaders(raw_headers) # {}
          /\ AbsentHeaders(raw_headers) # {} =>
                /\ logged'.arg \in AbsentHeaders(raw_headers)
                /\ response'[cur] = NoResponse]_vars

C9_Witness ==
    /\ outcome[1] = "HandshakeError"
    /\ logged.msg = "missing header" /\ logged.arg = "Origin"
    /\ response[1] = NoResponse

\* What C10 says of the step that ends a handshake.
VersionChecked ==
    IF header(FindHeaders(raw_headers), "Sec-WebSocket-Version") # "13"
    THEN /\ outcome'[cur] = "HandshakeError"
         /\ logged'.kind = "HandshakeError" /\ logged'.msg = "version mismatch"
         /\ response'[cur] = NoResponse
    ELSE ~(outcome'[cur] = "HandshakeError" /\ logged'.msg = "version mismatch")

HasResponseHeader(resp, name) == \E i \in 5..Len(resp) : resp[i].n = name
ResponseItems(resp, name) ==
    IF HasResponseHeader(resp, name)
    THEN resp[CHOOSE i \in 5..Len(resp) : resp[i].n = name].v
    ELSE <<>>

\* The trimmed items the request offers in its header `name`.
Offered(raw, name) == split_stripped(HeaderItems(FindHeaders(raw), name))

\* C11: when server_handshake has answered a request, the protocols in the
\* response's Sec-WebSocket-Protocol header are exactly the offered
\* Sec-WebSocket-Protocol items that the websocket supports, in the order
\* offered, and the header is there exactly when that list is not empty.
C11_ProtocolsNegotiated ==
    (mainPc = "client" /\ response[cur] # NoResponse) =>
        LET negotiated == Supported(Offered(raw_headers, "Sec-WebSocket-Protocol"),
                                    wsock[cur].protocols)
        IN  /\ ResponseItems(response[cur], "Sec-WebSocket-Protocol") = negotiated
            /\ HasResponseHeader(response[cur], "Sec-WebSocket-Protocol")
                  <=> negotiated # <<>>

\* C12: a header block whose request line is not `GET <path> HTTP/1.1` ends
\* the handshake with HandshakeError, and no response is written.
C12_BadRequestLine ==
    [][(HandshakeDone /\ ~LocationMatches(raw_headers) /\ mainPc' # "handshake") =>
          /\ outcome'[cur] = "HandshakeError"
          /\ logged'.kind = "HandshakeError"
          /\ response'[cur] = NoResponse]_vars

\* The bytes contain an end-of-header terminator: an empty CRLF line after a
\* line ended by CRLF ("\r\n\r\n"), or an empty line ended by a bare line feed
\* after any line ("\n\n").
ContainsTerminator(raw) ==
    \E i \in 2..Len(raw) :
        /\ raw[i].t = "EMPTY"
        /\ raw[i].eol = "LF" \/ (raw[i].eol = "CRLF" /\ raw[i - 1].eol = "CRLF")

\* C13: the header read always terminates: when the peer has shut down its
\* stream and all it sent was read without an end of the header block, the
\* handshake fails with HandshakeError.
C13_HeaderReadTerminates ==
    \A p \in Peers :
        (cur = p /\ mainPc = "handshake" /\ p \in closed /\ wire[p] = <<>>
         /\ ~ContainsTerminator(raw_headers))
            ~> (outcome[p] = "HandshakeError")

\* C14: connect returns normally exactly when the server answers 101 with the
\* matching accept value, the handshake then being done, and fails with
\* HandshakeError for every other answer.
C14_ConnectHandshakes ==
    \A i \in 1..Len(calls) :
        calls[i].op = "connect" =>
            IF calls[i].answer = "101 accept matches"
            THEN calls[i].raised = "" /\ calls[i].after.handshake_started
            ELSE calls[i].raised = "HandshakeError"

\* C15: a connection accepted on a listening websocket is negotiated against
\* the listener's supported lists: the response's extensions are the offered
\* extensions the listener supports, in the order offered, and every offered
\* protocol the listener supports is in the response.
C15_AcceptNegotiatesListener ==
    (mainPc = "client" /\ response[cur] # NoResponse) =>
        /\ ResponseItems(response[cur], "Sec-WebSocket-Extensions") =
              Supported(Offered(raw_headers, "Sec-WebSocket-Extensions"),
                        listener.extensions)
        /\ Range(Supported(Offered(raw_headers, "Sec-WebSocket-Protocol"),
                           listener.protocols))
              \subseteq Range(ResponseItems(response[cur], "Sec-WebSocket-Protocol"))

\* C16: once the bytes read contain an end-of-header terminator, the read
\* loop reads no more and the checks of the header block follow.
C16_StopsAtTerminator ==
    (mainPc = "handshake" /\ ContainsTerminator(raw_headers)) =>
        /\ ~ENABLED HandshakeRecv
        /\ ~ENABLED HandshakeRecvEof
        /\ ENABLED (AcceptReturns \/ ExceptStep)

\* The complete 101 response has been written to peer p.
ResponseComplete(p) ==
    /\ Len(response[p]) >= 4
    /\ response[p][1] = "101"

C18_RegisteredHasReceiveLoop ==
    \A c \in Peers :
        /\ Cardinality({i \in 1..Len(clients) : clients[i] = c}) <= 1
        /\ (c \in Range(clients) /\ ~interrupted) =>
              (thr[c] # "none" \/ (cur = c /\ mainPc = "start"))
        /\ thr[c] # "none" => c \in everReg

\* C19: enable_ssl on a websocket on which a handshake was entered raises
\* SSLError and leaves the websocket as it was; before that it wraps the
\* socket and sets secure.
C19_SslOnlyBeforeHandshake ==
    \A i \in 1..Len(calls) :
        calls[i].op = "enable_ssl" =>
            IF calls[i].entered
            THEN calls[i].raised = "SSLError" /\ calls[i].after = calls[i].before
            ELSE /\ calls[i].raised = ""
                 /\ calls[i].after.secure /\ calls[i].after.sock = "ssl"

====
